---- MODULE Spec2Model ----
(***************************************************************************)
(* github_report.py: the report run (generate_report) with the two paged   *)
(* listings, the e-mail lookup and the permission classifier, against a    *)
(* remote API whose data is held in srv.                                   *)
(***************************************************************************)
EXTENDS Integers, Sequences, FiniteSets, TLC

VARIABLES
    srv,                \* the remote API's data; never changes during a run
    pc,                 \* position of the single thread of control
    org_names, oi,      \* generate_report: the organization list and the loop index into it
    repos, ri,          \* generate_report: repos and the loop index into it
    collaborators, ci,  \* generate_report: collaborators and the loop index into it
    page,               \* get_repos_for_org / get_collaborators_for_repo: page
    all_repos,          \* get_repos_for_org: all_repos
    all_collaborators,  \* get_collaborators_for_repo: all_collaborators
    email,              \* get_user_email: email, then generate_report: email
    rows,               \* the rows written to the csv file, header included
    printed,            \* the success message has been printed
    reqs,               \* history: every request issued, in order
    resps,              \* history: status and item count of every response received
    callStart,          \* history: Len(reqs) when the running listing/lookup call began
    lastHdr,            \* history: the rate-limit header of the last response
    slept,              \* history: time slept since the last response
    failures,           \* history: non-200 answers given so far by known listing endpoints
    failedUnits,        \* history: the listings that got a non-200 answer
    listed,             \* history: what every listing call returned, in call order
    given               \* history: the org_names argument generate_report was called with

vars == <<srv, pc, org_names, oi, repos, ri, collaborators, ci, page, all_repos,
          all_collaborators, email, rows, printed, reqs, resps, callStart,
          lastHdr, slept, failures, failedUnits, listed, given>>

----------------------------------------------------------------------------
\* Program constants
PerPage == 100
LowWaterMark == 10
Cooldown == 60
StatusOK == 200
ErrorStatus == 404
NotAvailable == "Not available"
MaskedSuffix == "noreply.github.com"
Header == <<"Organization", "Repo Name", "User Name", "Email", "Permission">>
Flags == {"admin", "maintain", "push", "triage", "pull"}

\* Bounds of the model
MaxFailures == 2        \* non-200 answers injected into listings per run
PageCap == 2            \* items per page the small server serves at most
MaxItems == 250         \* largest collection of the paging runs
MaxEvents == 2          \* events in a generated timeline
MaxCommits == 2         \* commits in a generated timeline, all events together

\* JSON null, as a token no address can equal
None == "<null>"

Min(a, b) == IF a <= b THEN a ELSE b

\* Python truthiness of an optional string: None and "" are false
Truthy(s) == s # None /\ s # ""

\* str.endswith
EndsWith(s, suf) ==
    /\ Len(s) >= Len(suf)
    /\ SubSeq(s, Len(s) - Len(suf) + 1, Len(s)) = suf

IsMasked_Never(e) == FALSE

\* email.endswith('noreply.github.com')
IsMasked(e) == EndsWith(e, MaskedSuffix)

\* dict.get(key, False)
GetFlag(permissions, key) ==
    IF key \in DOMAIN permissions THEN permissions[key] ELSE FALSE

get_permission_level_PushFirst(permissions) ==
    IF GetFlag(permissions, "push") THEN "Write"
    ELSE IF GetFlag(permissions, "admin") THEN "Admin"
    ELSE IF GetFlag(permissions, "maintain") THEN "Maintain"
    ELSE IF GetFlag(permissions, "triage") THEN "Triage"
    ELSE IF GetFlag(permissions, "pull") THEN "Read"
    ELSE "Unknown"

get_permission_level(permissions) ==
    IF GetFlag(permissions, "admin") THEN "Admin"
    ELSE IF GetFlag(permissions, "maintain") THEN "Maintain"
    ELSE IF GetFlag(permissions, "push") THEN "Write"
    ELSE IF GetFlag(permissions, "triage") THEN "Triage"
    ELSE IF GetFlag(permissions, "pull") THEN "Read"
    ELSE "Unknown"

----------------------------------------------------------------------------
\* The timeline scan of get_user_email. Both loops carry the local `email`,
\* which every commit with a non-empty author email overwrites.

RECURSIVE ScanCommits(_, _)
ScanCommits(commits, em) ==
    IF commits = <<>> THEN [ret |-> FALSE, email |-> em]
    ELSE LET commit == Head(commits) IN
         IF commit.has_author /\ Truthy(commit.email)
         THEN IF ~IsMasked(commit.email)
              THEN [ret |-> TRUE, email |-> commit.email]
              ELSE ScanCommits(Tail(commits), commit.email)
         ELSE ScanCommits(Tail(commits), em)

RECURSIVE ScanEvents(_, _)
ScanEvents(events, em) ==
    IF events = <<>> THEN [ret |-> FALSE, email |-> em]
    ELSE LET event == Head(events) IN
         IF event.type = "PushEvent" /\ event.has_payload
         THEN LET r == ScanCommits(event.commits, em) IN
              IF r.ret THEN r ELSE ScanEvents(Tail(events), r.email)
         ELSE ScanEvents(Tail(events), em)

FinalEmail_PassThrough(em) == em

\* return email if email else "Not available"
FinalEmail(em) == IF Truthy(em) THEN em ELSE NotAvailable

NeedsTimeline_Always(em) == TRUE

\* if not email:
NeedsTimeline(em) == ~Truthy(em)

AfterEvents_IgnoreStatus(status, events, em) ==
    LET r == ScanEvents(events, em) IN
    IF r.ret THEN r.email ELSE FinalEmail(r.email)

\* What get_user_email returns once the timeline answer is in
AfterEvents(status, events, em) ==
    IF status = StatusOK
    THEN LET r == ScanEvents(events, em) IN
         IF r.ret THEN r.email ELSE FinalEmail(r.email)
    ELSE FinalEmail(em)

----------------------------------------------------------------------------
\* The remote API. A request is what requests.get is called with; an answer is
\* the status and the decoded body.

Req(ep, org, repo, user, pg, per_page) ==
    [ep |-> ep, org |-> org, repo |-> repo, user |-> user, page |-> pg, per_page |-> per_page]

OrgsReq == Req("orgs", "", "", "", 0, 0)
ReposReq == Req("repos", org_names[oi], "", "", page, PerPage)
CollabsReq == Req("collaborators", org_names[oi], repos[ri].name, "", page, PerPage)
ProfileReq == Req("profile", "", "", collaborators[ci].login, 0, 0)
EventsReq == Req("events", "", "", collaborators[ci].login, 0, 0)

\* The unit a listing request belongs to
UnitOf(req) == [org |-> req.org, repo |-> req.repo]

\* Rate-limit headers a response may carry: none, one below the mark, one at it
Hdrs == { [has |-> FALSE, val |-> 0],
          [has |-> TRUE, val |-> LowWaterMark - 1],
          [has |-> TRUE, val |-> LowWaterMark] }

Known(req) ==
    CASE req.ep = "orgs" -> TRUE
      [] req.ep = "repos" -> req.org \in DOMAIN srv.repos
      [] req.ep = "collaborators" -> <<req.org, req.repo>> \in DOMAIN srv.collabs
      [] OTHER -> req.user \in DOMAIN srv.users

\* Page pg of a collection, for a server that serves at most srv.cap items a page
PageOf(coll, per_page, pg) ==
    LET size == Min(per_page, srv.cap)
    IN  SubSeq(coll, (pg - 1) * size + 1, Min(pg * size, Len(coll)))

Answer(status, body, n) == [status |-> status, body |-> body, n |-> n]

\* The answers the API may give to a listing request
ListAnswers(req) ==
    LET coll == CASE req.ep = "orgs" -> srv.orgs
                  [] req.ep = "repos" -> PageOf(srv.repos[req.org], req.per_page, req.page)
                  [] OTHER -> PageOf(srv.collabs[<<req.org, req.repo>>], req.per_page, req.page)
    IN  IF ~Known(req) THEN {Answer(ErrorStatus, <<>>, 0)}
        ELSE {Answer(StatusOK, coll, Len(coll))}
             \cup (IF failures < MaxFailures THEN {Answer(ErrorStatus, <<>>, 0)} ELSE {})

\* The answer to a profile or timeline request: part of the user's data
ProfileAnswer(req) ==
    IF ~Known(req) THEN Answer(ErrorStatus, None, 0)
    ELSE Answer(srv.users[req.user].status, srv.users[req.user].email, 0)

EventsAnswer(req) ==
    IF ~Known(req) THEN Answer(ErrorStatus, <<>>, 0)
    ELSE Answer(srv.users[req.user].events_status, srv.users[req.user].events,
                Len(srv.users[req.user].events))

\* History kept with every response
Log(req, a, h) ==
    /\ reqs' = Append(reqs, req)
    /\ resps' = Append(resps, [status |-> a.status, n |-> a.n])
    /\ lastHdr' = h
    /\ slept' = 0

Injected(req, a) == Known(req) /\ a.status # StatusOK

Budget(req, a) ==
    /\ failures' = IF Injected(req, a) THEN failures + 1 ELSE failures
    /\ failedUnits' = IF a.status # StatusOK /\ req.ep # "orgs"
                      THEN failedUnits \cup {UnitOf(req)} ELSE failedUnits

----------------------------------------------------------------------------
\* One turn of the loop of get_repos_for_org, from the response on: where
\* control goes, all_repos and page.

Low(h) == h.has /\ h.val < LowWaterMark

ReposStep_AbortOnError(status, items, h, all, pg) ==
    IF status # StatusOK THEN [pc |-> "done", all |-> all, page |-> pg]
    ELSE IF items = <<>> THEN [pc |-> "repo_loop", all |-> all, page |-> pg]
    ELSE [pc |-> IF Low(h) THEN "repos_sleep" ELSE "repos_get",
          all |-> all \o items, page |-> pg + 1]

ReposStep_StopOnShortPage(status, items, h, all, pg) ==
    IF status # StatusOK THEN [pc |-> "repo_loop", all |-> all, page |-> pg]
    ELSE IF items = <<>> THEN [pc |-> "repo_loop", all |-> all, page |-> pg]
    ELSE IF Len(items) < PerPage THEN [pc |-> "repo_loop", all |-> all \o items, page |-> pg + 1]
    ELSE [pc |-> IF Low(h) THEN "repos_sleep" ELSE "repos_get",
          all |-> all \o items, page |-> pg + 1]

ReposStep_Prepend(status, items, h, all, pg) ==
    IF status # StatusOK THEN [pc |-> "repo_loop", all |-> all, page |-> pg]
    ELSE IF items = <<>> THEN [pc |-> "repo_loop", all |-> all, page |-> pg]
    ELSE [pc |-> IF Low(h) THEN "repos_sleep" ELSE "repos_get",
          all |-> items \o all, page |-> pg + 1]

ReposStep_LowInclusive(status, items, h, all, pg) ==
    IF status # StatusOK THEN [pc |-> "repo_loop", all |-> all, page |-> pg]
    ELSE IF items = <<>> THEN [pc |-> "repo_loop", all |-> all, page |-> pg]
    ELSE [pc |-> IF h.has /\ h.val <= LowWaterMark THEN "repos_sleep" ELSE "repos_get",
          all |-> all \o items, page |-> pg + 1]

ReposStep(status, items, h, all, pg) ==
    IF status # StatusOK THEN [pc |-> "repo_loop", all |-> all, page |-> pg]
    ELSE IF items = <<>> THEN [pc |-> "repo_loop", all |-> all, page |-> pg]
    ELSE [pc |-> IF Low(h) THEN "repos_sleep" ELSE "repos_get",
          all |-> all \o items, page |-> pg + 1]

CollabsStep_RaiseOnError(status, items, h, all, pg) ==
    IF status # StatusOK THEN [pc |-> "crashed", all |-> all, page |-> pg]
    ELSE IF items = <<>> THEN [pc |-> "collab_loop", all |-> all, page |-> pg]
    ELSE [pc |-> IF Low(h) THEN "collabs_sleep" ELSE "collabs_get",
          all |-> all \o items, page |-> pg + 1]

CollabsStep_DropOnError(status, items, h, all, pg) ==
    IF status # StatusOK THEN [pc |-> "collab_loop", all |-> <<>>, page |-> pg]
    ELSE IF items = <<>> THEN [pc |-> "collab_loop", all |-> all, page |-> pg]
    ELSE [pc |-> IF Low(h) THEN "collabs_sleep" ELSE "collabs_get",
          all |-> all \o items, page |-> pg + 1]

CollabsStep_SleepOnAnyHeader(status, items, h, all, pg) ==
    IF status # StatusOK THEN [pc |-> "collab_loop", all |-> all, page |-> pg]
    ELSE IF items = <<>> THEN [pc |-> "collab_loop", all |-> all, page |-> pg]
    ELSE [pc |-> IF h.has THEN "collabs_sleep" ELSE "collabs_get",
          all |-> all \o items, page |-> pg + 1]

\* The same turn of get_collaborators_for_repo
CollabsStep(status, items, h, all, pg) ==
    IF status # StatusOK THEN [pc |-> "collab_loop", all |-> all, page |-> pg]
    ELSE IF items = <<>> THEN [pc |-> "collab_loop", all |-> all, page |-> pg]
    ELSE [pc |-> IF Low(h) THEN "collabs_sleep" ELSE "collabs_get",
          all |-> all \o items, page |-> pg + 1]

\* csv_writer.writerow
WriteRowTo_Dedup(rs, row) ==
    IF \E i \in 1..Len(rs) : rs[i][3] = row[3] THEN rs ELSE Append(rs, row)

WriteRowTo_DropUnresolved(rs, row) ==
    IF row[4] = NotAvailable THEN rs ELSE Append(rs, row)

WriteRowTo(rs, row) == Append(rs, row)

----------------------------------------------------------------------------
\* generate_report and the calls it makes

WriteHeader_AlwaysDiscover ==
    /\ pc = "start"
    /\ rows' = WriteRowTo(rows, Header)
    /\ oi' = 1
    /\ pc' = "orgs_get"
    /\ UNCHANGED <<srv, org_names, repos, ri, collaborators, ci, page, all_repos,
                   all_collaborators, email, printed, reqs, resps, callStart,
                   lastHdr, slept, failures, failedUnits, listed, given>>

\* open(output_file, 'w'); csv_writer.writerow(header); if not org_names: ...
WriteHeader ==
    /\ pc = "start"
    /\ rows' = WriteRowTo(rows, Header)
    /\ oi' = 1
    /\ pc' = IF org_names = <<>> THEN "orgs_get" ELSE "org_loop"
    /\ UNCHANGED <<srv, org_names, repos, ri, collaborators, ci, page, all_repos,
                   all_collaborators, email, printed, reqs, resps, callStart,
                   lastHdr, slept, failures, failedUnits, listed, given>>

\* get_organizations and org_names = [org['login'] for org in orgs]
FetchOrgs ==
    /\ pc = "orgs_get"
    /\ \E a \in ListAnswers(OrgsReq), h \in Hdrs :
          /\ org_names' = IF a.status # StatusOK THEN <<>>
                          ELSE [i \in 1..Len(a.body) |-> a.body[i].login]
          /\ Log(OrgsReq, a, h)
          /\ Budget(OrgsReq, a)
    /\ callStart' = Len(reqs)
    /\ pc' = "org_loop"
    /\ UNCHANGED <<srv, oi, repos, ri, collaborators, ci, page, all_repos,
                   all_collaborators, email, rows, printed, listed, given>>

\* for org_name in org_names: repos = get_repos_for_org(...), up to the first
\* request; after the last organization, the success message
OrgLoop ==
    /\ pc = "org_loop"
    /\ IF oi <= Len(org_names)
       THEN /\ pc' = "repos_get"
            /\ page' = 1
            /\ all_repos' = <<>>
            /\ callStart' = Len(reqs)
            /\ UNCHANGED printed
       ELSE /\ pc' = "done"
            /\ printed' = TRUE
            /\ UNCHANGED <<page, all_repos, callStart>>
    /\ UNCHANGED <<srv, org_names, oi, repos, ri, collaborators, ci,
                   all_collaborators, email, rows, reqs, resps,
                   lastHdr, slept, failures, failedUnits, listed, given>>

\* get_repos_for_org: one request and the rest of that turn of the loop
FetchReposPage ==
    /\ pc = "repos_get"
    /\ \E a \in ListAnswers(ReposReq), h \in Hdrs :
          LET s == ReposStep(a.status, a.body, h, all_repos, page) IN
          /\ pc' = s.pc
          /\ all_repos' = s.all
          /\ page' = s.page
          /\ repos' = IF s.pc \in {"repos_get", "repos_sleep"} THEN repos ELSE s.all
          /\ ri' = IF s.pc \in {"repos_get", "repos_sleep"} THEN ri ELSE 1
          /\ listed' = IF s.pc \in {"repos_get", "repos_sleep"} THEN listed
                        ELSE Append(listed, [org |-> org_names[oi], repo |-> "", items |-> s.all])
          /\ Log(ReposReq, a, h)
          /\ Budget(ReposReq, a)
    /\ UNCHANGED <<srv, org_names, oi, collaborators, ci, all_collaborators,
                   email, rows, printed, callStart, given>>

\* time.sleep(60) in get_repos_for_org
ReposSleep ==
    /\ pc = "repos_sleep"
    /\ slept' = slept + Cooldown
    /\ pc' = "repos_get"
    /\ UNCHANGED <<srv, org_names, oi, repos, ri, collaborators, ci, page, all_repos,
                   all_collaborators, email, rows, printed, reqs, resps, callStart,
                   lastHdr, failures, failedUnits, listed, given>>

\* for repo in repos: collaborators = get_collaborators_for_repo(...), up to
\* the first request; after the last repository, the next organization
RepoLoop ==
    /\ pc = "repo_loop"
    /\ IF ri <= Len(repos)
       THEN /\ pc' = "collabs_get"
            /\ page' = 1
            /\ all_collaborators' = <<>>
            /\ callStart' = Len(reqs)
            /\ UNCHANGED oi
       ELSE /\ pc' = "org_loop"
            /\ oi' = oi + 1
            /\ UNCHANGED <<page, all_collaborators, callStart>>
    /\ UNCHANGED <<srv, org_names, repos, ri, collaborators, ci, all_repos,
                   email, rows, printed, reqs, resps,
                   lastHdr, slept, failures, failedUnits, listed, given>>

\* get_collaborators_for_repo: one request and the rest of that turn of the loop
FetchCollabsPage ==
    /\ pc = "collabs_get"
    /\ \E a \in ListAnswers(CollabsReq), h \in Hdrs :
          LET s == CollabsStep(a.status, a.body, h, all_collaborators, page) IN
          /\ pc' = s.pc
          /\ all_collaborators' = s.all
          /\ page' = s.page
          /\ collaborators' = IF s.pc \in {"collabs_get", "collabs_sleep"}
                              THEN collaborators ELSE s.all
          /\ ci' = IF s.pc \in {"collabs_get", "collabs_sleep"} THEN ci ELSE 1
          /\ listed' = IF s.pc \in {"collabs_get", "collabs_sleep"} THEN listed
                        ELSE Append(listed, [org |-> org_names[oi], repo |-> repos[ri].name,
                                             items |-> s.all])
          /\ Log(CollabsReq, a, h)
          /\ Budget(CollabsReq, a)
    /\ UNCHANGED <<srv, org_names, oi, repos, ri, all_repos,
                   email, rows, printed, callStart, given>>

\* time.sleep(60) in get_collaborators_for_repo
CollabsSleep ==
    /\ pc = "collabs_sleep"
    /\ slept' = slept + Cooldown
    /\ pc' = "collabs_get"
    /\ UNCHANGED <<srv, org_names, oi, repos, ri, collaborators, ci, page, all_repos,
                   all_collaborators, email, rows, printed, reqs, resps, callStart,
                   lastHdr, failures, failedUnits, listed, given>>

\* for collaborator in collaborators: email = get_user_email(...), up to the
\* profile request; after the last collaborator, the next repository
CollabLoop ==
    /\ pc = "collab_loop"
    /\ IF ci <= Len(collaborators)
       THEN /\ pc' = "profile_get"
            /\ callStart' = Len(reqs)
            /\ UNCHANGED ri
       ELSE /\ pc' = "repo_loop"
            /\ ri' = ri + 1
            /\ UNCHANGED callStart
    /\ UNCHANGED <<srv, org_names, oi, repos, collaborators, ci, page, all_repos,
                   all_collaborators, email, rows, printed, reqs, resps,
                   lastHdr, slept, failures, failedUnits, listed, given>>

\* get_user_email: the profile request, and the return when it decides
FetchProfile ==
    /\ pc = "profile_get"
    /\ \E h \in Hdrs :
          LET a == ProfileAnswer(ProfileReq) IN
          /\ IF a.status # StatusOK
             THEN email' = NotAvailable /\ pc' = "write_row"
             ELSE IF NeedsTimeline(a.body)
                  THEN email' = a.body /\ pc' = "events_get"
                  ELSE email' = FinalEmail(a.body) /\ pc' = "write_row"
          /\ Log(ProfileReq, a, h)
    /\ UNCHANGED <<srv, org_names, oi, repos, ri, collaborators, ci, page, all_repos,
                   all_collaborators, rows, printed, callStart, failures, failedUnits, listed, given>>

\* get_user_email: the timeline request, the scan and the return
FetchEvents ==
    /\ pc = "events_get"
    /\ \E h \in Hdrs :
          LET a == EventsAnswer(EventsReq) IN
          /\ email' = AfterEvents(a.status, a.body, email)
          /\ Log(EventsReq, a, h)
    /\ pc' = "write_row"
    /\ UNCHANGED <<srv, org_names, oi, repos, ri, collaborators, ci, page, all_repos,
                   all_collaborators, rows, printed, callStart, failures, failedUnits, listed, given>>

\* permission = get_permission_level(...); csv_writer.writerow([...])
WriteRow ==
    /\ pc = "write_row"
    /\ rows' = WriteRowTo(rows, <<org_names[oi], repos[ri].name, collaborators[ci].login,
                                  email, get_permission_level(collaborators[ci].permissions)>>)
    /\ ci' = ci + 1
    /\ pc' = "collab_loop"
    /\ UNCHANGED <<srv, org_names, oi, repos, ri, collaborators, page, all_repos,
                   all_collaborators, email, printed, reqs, resps, callStart,
                   lastHdr, slept, failures, failedUnits, listed, given>>

\* requests.get raises (connection error) or response.json() does: nothing
\* catches it, the run ends
RequestPcs == {"orgs_get", "repos_get", "collabs_get", "profile_get", "events_get"}

CurrentReq ==
    CASE pc = "orgs_get" -> OrgsReq
      [] pc = "repos_get" -> ReposReq
      [] pc = "collabs_get" -> CollabsReq
      [] pc = "profile_get" -> ProfileReq
      [] OTHER -> EventsReq

TransportFailure_Swallowed ==
    /\ pc \in RequestPcs
    /\ reqs' = Append(reqs, CurrentReq)
    /\ pc' = "done"
    /\ printed' = TRUE
    /\ UNCHANGED <<srv, org_names, oi, repos, ri, collaborators, ci, page, all_repos,
                   all_collaborators, email, rows, resps, callStart,
                   lastHdr, slept, failures, failedUnits, listed, given>>

TransportFailure ==
    /\ pc \in RequestPcs
    /\ reqs' = Append(reqs, CurrentReq)
    /\ pc' = "crashed"
    /\ UNCHANGED <<srv, org_names, oi, repos, ri, collaborators, ci, page, all_repos,
                   all_collaborators, email, rows, printed, resps, callStart,
                   lastHdr, slept, failures, failedUnits, listed, given>>

----------------------------------------------------------------------------
\* The report run: a small organization tree behind a server of PageCap items a page

Perm(S) == [f \in S |-> TRUE]

User(status, em, events_status, events) ==
    [status |-> status, email |-> em, events_status |-> events_status, events |-> events]

Commit(has_author, em) == [has_author |-> has_author, email |-> em]

Event(type, has_payload, commits) ==
    [type |-> type, has_payload |-> has_payload, commits |-> commits]

Collab(login, permissions) == [login |-> login, permissions |-> permissions]

World ==
    [ cap |-> PageCap,
      orgs |-> <<[login |-> "A"], [login |-> "B"], [login |-> "C"]>>,
      repos |-> [o \in {"A", "B", "C"} |->
                   CASE o = "A" -> <<[name |-> "a1"], [name |-> "a2"], [name |-> "a3"]>>
                     [] o = "B" -> <<[name |-> "b1"]>>
                     [] OTHER -> <<[name |-> "c1"]>>],
      collabs |-> [u \in {<<"A", "a1">>, <<"A", "a2">>, <<"A", "a3">>, <<"B", "b1">>, <<"C", "c1">>} |->
                   CASE u = <<"A", "a1">> -> <<Collab("u1", Perm(Flags)),
                                                Collab("u2", Perm({"push", "pull"}))>>
                     [] u = <<"A", "a2">> -> <<Collab("u1", Perm({"pull"}))>>
                     [] u = <<"A", "a3">> -> <<>>
                     [] u = <<"B", "b1">> -> <<Collab("u2", Perm({"maintain", "push", "triage", "pull"})),
                                                Collab("u3", Perm({"triage", "pull"})),
                                                Collab("u4", Perm({}))>>
                     [] OTHER -> <<Collab("u5", [f \in {"admin", "push"} |-> FALSE])>>],
      users |-> [u \in {"u1", "u2", "u3", "u4", "u5"} |->
                   CASE u = "u1" -> User(StatusOK, "u1@corp.com", StatusOK, <<>>)
                     [] u = "u2" -> User(StatusOK, None, StatusOK,
                                        <<Event("WatchEvent", TRUE, <<>>),
                                          Event("PushEvent", TRUE,
                                                <<Commit(TRUE, "7+u2@users.noreply.github.com"),
                                                  Commit(TRUE, "u2@home.org")>>)>>)
                     [] u = "u3" -> User(StatusOK, "", StatusOK,
                                        <<Event("PushEvent", TRUE,
                                                <<Commit(TRUE, "9+u3@users.noreply.github.com")>>)>>)
                     [] u = "u4" -> User(ErrorStatus, None, StatusOK, <<>>)
                     [] OTHER -> User(StatusOK, None, ErrorStatus, <<>>)] ]

\* The organization lists given on the command line; <<>> is none given
ArgOrgLists == { <<>>, <<"A", "B", "C">>, <<"C", "A">>, <<"B", "Z">> }

NoHdr == [has |-> FALSE, val |-> 0]

Init ==
    /\ srv = World
    /\ pc = "start"
    /\ org_names \in ArgOrgLists
    /\ oi = 1 /\ ri = 1 /\ ci = 1
    /\ repos = <<>> /\ collaborators = <<>>
    /\ page = 1 /\ all_repos = <<>> /\ all_collaborators = <<>>
    /\ email = None
    /\ rows = <<>>
    /\ printed = FALSE
    /\ reqs = <<>> /\ resps = <<>> /\ callStart = 0
    /\ lastHdr = NoHdr /\ slept = 0
    /\ failures = 0 /\ failedUnits = {} /\ listed = <<>>
    /\ given = org_names

Next ==
    \/ WriteHeader
    \/ FetchOrgs
    \/ OrgLoop
    \/ FetchReposPage
    \/ ReposSleep
    \/ RepoLoop
    \/ FetchCollabsPage
    \/ CollabsSleep
    \/ CollabLoop
    \/ FetchProfile
    \/ FetchEvents
    \/ WriteRow
    \/ TransportFailure

Spec == Init /\ [][Next]_vars

----------------------------------------------------------------------------
\* The report run when every request is answered: the same run without
\* transport failures, against the tree above, the tree with every profile
\* lookup refused, and a server that refuses every repository and collaborator
\* listing. The single thread of control always takes its next step.
NoLookupWorld ==
    [World EXCEPT !.users = [u \in DOMAIN World.users |->
                                User(ErrorStatus, None, ErrorStatus, <<>>)]]

RefusingWorld ==
    [World EXCEPT !.repos = [o \in {} |-> <<>>], !.collabs = [u \in {} |-> <<>>]]

Worlds == {World, NoLookupWorld, RefusingWorld}

InitAnswered ==
    \E w \in Worlds, orgs \in ArgOrgLists :
        /\ srv = w
        /\ pc = "start"
        /\ org_names = orgs
        /\ oi = 1 /\ ri = 1 /\ ci = 1
        /\ repos = <<>> /\ collaborators = <<>>
        /\ page = 1 /\ all_repos = <<>> /\ all_collaborators = <<>>
        /\ email = None
        /\ rows = <<>>
        /\ printed = FALSE
        /\ reqs = <<>> /\ resps = <<>> /\ callStart = 0
        /\ lastHdr = NoHdr /\ slept = 0
        /\ failures = 0 /\ failedUnits = {} /\ listed = <<>>
        /\ given = org_names

NextAnswered ==
    \/ WriteHeader
    \/ FetchOrgs
    \/ OrgLoop
    \/ FetchReposPage
    \/ ReposSleep
    \/ RepoLoop
    \/ FetchCollabsPage
    \/ CollabsSleep
    \/ CollabLoop
    \/ FetchProfile
    \/ FetchEvents
    \/ WriteRow

SpecAnswered == InitAnswered /\ [][NextAnswered]_vars /\ WF_vars(NextAnswered)

----------------------------------------------------------------------------

\* Entry into one function, the caller's variables as generate_report has
\* them at that call

EntryAt(world, at, orgs, rs, cs) ==
    /\ srv = world
    /\ pc = at
    /\ org_names = orgs
    /\ oi = 1 /\ ri = 1 /\ ci = 1
    /\ repos = rs /\ collaborators = cs
    /\ page = 1 /\ all_repos = <<>> /\ all_collaborators = <<>>
    /\ email = None
    /\ rows = <<Header>>
    /\ printed = FALSE
    /\ reqs = <<>> /\ resps = <<>> /\ callStart = 0
    /\ lastHdr = NoHdr /\ slept = 0
    /\ failures = 0 /\ failedUnits = {} /\ listed = <<>>
    /\ given = org_names

\* The paged listings alone: one organization "big" whose repository "r1" is
\* listed, collections of 0..MaxItems items, a server that honours per_page
BigRepos(n) == [i \in 1..n |-> [name |-> "r" \o ToString(i)]]

BigCollabs(n) == [i \in 1..n |-> Collab("m" \o ToString(i), Perm({"pull"}))]

PagingWorld(n) ==
    [ cap |-> PerPage,
      orgs |-> <<[login |-> "big"]>>,
      repos |-> [o \in {"big"} |-> BigRepos(n)],
      collabs |-> [u \in {<<"big", "r1">>} |-> BigCollabs(n)],
      users |-> [u \in {} |-> User(ErrorStatus, None, ErrorStatus, <<>>)] ]

InitPaging ==
    \E n \in 0..MaxItems, at \in {"repos_get", "collabs_get"} :
        EntryAt(PagingWorld(n), at, <<"big">>,
                IF at = "collabs_get" THEN <<[name |-> "r1"]>> ELSE <<>>, <<>>)

NextPaging ==
    \/ FetchReposPage
    \/ ReposSleep
    \/ FetchCollabsPage
    \/ CollabsSleep
    \/ TransportFailure

SpecPaging == InitPaging /\ [][NextPaging]_vars

\* get_user_email alone: one user "u" whose profile and timeline are drawn
\* from bounded sets. The k-th commit of a timeline carries its own address.
CommitKinds == {"real", "masked", "noauthor", "noemail"}

CommitOf(kind, k) ==
    CASE kind = "real" -> Commit(TRUE, "c" \o ToString(k) \o "@x.org")
      [] kind = "masked" -> Commit(TRUE, ToString(k) \o "+u@users.noreply.github.com")
      [] kind = "noauthor" -> Commit(FALSE, None)
      [] OTHER -> Commit(TRUE, "")

\* Commit lists of at most n commits, the first being commit k of the timeline
RECURSIVE CommitLists(_, _)
CommitLists(n, k) ==
    {<<>>} \cup
    (IF n = 0 THEN {}
     ELSE {<<CommitOf(kind, k)>> \o t : kind \in CommitKinds, t \in CommitLists(n - 1, k + 1)})

\* Events: pushes, a push without payload, and an event of another type that
\* carries a commit with a plain address
EventsAt(n, k) ==
    {Event("PushEvent", TRUE, cl) : cl \in CommitLists(n, k)}
    \cup {Event("PushEvent", FALSE, <<>>),
          Event("WatchEvent", TRUE, <<Commit(TRUE, "watcher@x.org")>>)}

\* The commits an event takes from the timeline's allowance
Drawn(e) == IF e.type = "PushEvent" THEN Len(e.commits) ELSE 0

\* Timelines of at most m events and n commits in pushes
RECURSIVE Timelines(_, _, _)
Timelines(m, n, k) ==
    {<<>>} \cup
    (IF m = 0 THEN {}
     ELSE UNION { {<<e>> \o t : t \in Timelines(m - 1, n - Drawn(e), k + Drawn(e))} :
                  e \in EventsAt(n, k) })

ProfileEmails == {None, "", "u@corp.com"}

EmailWorld(user) ==
    [ cap |-> PerPage,
      orgs |-> <<[login |-> "A"]>>,
      repos |-> [o \in {"A"} |-> <<[name |-> "a1"]>>],
      collabs |-> [u \in {<<"A", "a1">>} |-> <<Collab("u", Perm({"pull"}))>>],
      users |-> [u \in {"u"} |-> user] ]

InitEmail ==
    \E st \in {StatusOK, ErrorStatus}, em \in ProfileEmails,
       est \in {StatusOK, ErrorStatus}, tl \in Timelines(MaxEvents, MaxCommits, 1) :
        EntryAt(EmailWorld(User(st, em, est, tl)), "profile_get", <<"A">>,
                <<[name |-> "a1"]>>, <<Collab("u", Perm({"pull"}))>>)

NextEmail ==
    \/ FetchProfile
    \/ FetchEvents
    \/ TransportFailure

SpecEmail == InitEmail /\ [][NextEmail]_vars

\* get_permission_level alone, at the row it is computed for: every dict over
\* the five flags, each flag absent, false or true
PermissionDicts == UNION {[S -> BOOLEAN] : S \in SUBSET Flags}

InitPerm ==
    \E p \in PermissionDicts :
        EntryAt(EmailWorld(User(StatusOK, None, StatusOK, <<>>)), "write_row", <<"A">>,
                <<[name |-> "a1"]>>, <<Collab("u", p)>>)

NextPerm == WriteRow

SpecPerm == InitPerm /\ [][NextPerm]_vars

----------------------------------------------------------------------------
\* Properties of the paged listings, over SpecPaging (one listing call a run)

\* The collection the call lists and the list the call returned
ListedColl ==
    IF reqs[1].ep = "repos" THEN srv.repos[reqs[1].org]
    ELSE srv.collabs[<<reqs[1].org, reqs[1].repo>>]

Returned == pc \in {"repo_loop", "collab_loop"}

ReturnedList == IF pc = "repo_loop" THEN repos ELSE collaborators

AllOK == \A i \in 1..Len(resps) : resps[i].status = StatusOK

\* The items of pages 1..k as the server serves them to per_page = PerPage
RECURSIVE PagesUpTo(_, _)
PagesUpTo(coll, k) ==
    IF k = 0 THEN <<>> ELSE PagesUpTo(coll, k - 1) \o PageOf(coll, PerPage, k)

\* Pages of PerPage items needed to hold n items
PagesNeeded(n) == (n + PerPage - 1) \div PerPage

\* C1: with every response 200, a listing requests page=1,2,3,... with
\* per_page=100, requests nothing after the first empty page, and returns the
\* pages before that empty page concatenated in page order.
C1_PagesInOrderUntilEmpty ==
    AllOK =>
        /\ \A i \in 1..Len(reqs) : reqs[i].page = i /\ reqs[i].per_page = PerPage
        /\ \A i \in 1..Len(resps) : resps[i].n = 0 => i = Len(reqs) /\ Returned
        /\ Returned =>
              /\ resps[Len(resps)].n = 0
              /\ ReturnedList = PagesUpTo(ListedColl, Len(resps) - 1)

C1_Witness ==
    /\ Returned /\ AllOK
    /\ Len(reqs) = 4
    /\ ReturnedList = ListedColl
    /\ Len(ReturnedList) > 2 * PerPage

\* C2 as stated: a collection that fills k pages, the last non-empty, is
\* fetched with exactly k requests (250 items: 3 requests) and returned whole.
C2_Original ==
    (Returned /\ AllOK /\ Len(ListedColl) >= 1) =>
        /\ Len(reqs) = PagesNeeded(Len(ListedColl))
        /\ Len(ReturnedList) = Len(ListedColl)

\* C2 amended: a collection that fills k pages, the last non-empty, is fetched
\* with exactly k + 1 requests, the last answered by the empty page that ends
\* the loop (250 items: 4 requests), and all its items are returned.
C2_OneRequestPastLastPage ==
    (Returned /\ AllOK) =>
        /\ Len(reqs) = PagesNeeded(Len(ListedColl)) + 1
        /\ Len(ReturnedList) = Len(ListedColl)

C2_Witness ==
    /\ Returned /\ AllOK
    /\ Len(ListedColl) = 2 * PerPage + PerPage \div 2
    /\ Len(reqs) = 4
    /\ <<resps[1].n, resps[2].n, resps[3].n, resps[4].n>> = <<PerPage, PerPage, PerPage \div 2, 0>>
    /\ Len(ReturnedList) = 2 * PerPage + PerPage \div 2

\* C5: the first non-200 response ends the listing at once: the call returns
\* what the earlier pages gave, no request follows, the failed page is not asked
\* again, and nothing is raised.
C5_ErrorEndsListing ==
    \A k \in 1..Len(resps) :
        resps[k].status # StatusOK =>
            /\ k = Len(reqs)
            /\ \A i \in 1..k : reqs[i].page = i
            /\ Returned
            /\ ReturnedList = PagesUpTo(ListedColl, k - 1)

C5_Witness ==
    /\ Returned
    /\ Len(resps) = 3 /\ resps[3].status # StatusOK
    /\ Len(ReturnedList) = 2 * PerPage

----------------------------------------------------------------------------
\* The listing is about to request a page after the first
NextPageDue == pc \in {"repos_get", "collabs_get"} /\ reqs # <<>>

\* C15: inside one listing the 60-unit cooldown lies between the response to
\* page k and the request for page k+1 exactly when that response carries the
\* rate-limit header with a value below 10; with no header, or a value of 10 or
\* more, the page is requested at once, and nothing is slept after the empty
\* page or the non-200 response that ends the listing.
C15_CooldownBetweenPages ==
    /\ NextPageDue =>
          /\ Len(resps) = Len(reqs) /\ reqs[Len(reqs)].page = page - 1
          /\ (lastHdr.has /\ lastHdr.val < LowWaterMark) => slept = Cooldown
          /\ (~lastHdr.has \/ lastHdr.val >= LowWaterMark) => slept = 0
    /\ pc \in {"repos_sleep", "collabs_sleep"} =>
          (lastHdr.has /\ lastHdr.val < LowWaterMark /\ slept = 0)
    /\ Returned => slept = 0

C15_Witness ==
    /\ NextPageDue
    /\ pc = "collabs_get" /\ page = 3
    /\ lastHdr.has /\ lastHdr.val = LowWaterMark - 1
    /\ slept = Cooldown

----------------------------------------------------------------------------

\* Properties of get_user_email, over SpecEmail (one lookup of user "u" a run)

Profile == srv.users["u"]

\* The lookup has returned and its result is about to be written
Resolved == pc = "write_row"

TimelineAsked == \E i \in 1..Len(reqs) : reqs[i].ep = "events"

\* The places <<event, commit>> of the timeline whose author email qualifies:
\* a commit of a push event, with an author whose email is non-empty and does
\* not end with the masked suffix
Qualifying ==
    { ij \in UNION { {<<i, j>> : j \in 1..Len(Profile.events[i].commits)} :
                     i \in 1..Len(Profile.events) } :
        LET e == Profile.events[ij[1]]
            c == e.commits[ij[2]]
        IN  /\ e.type = "PushEvent" /\ e.has_payload
            /\ c.has_author /\ c.email # None /\ c.email # ""
            /\ ~EndsWith(c.email, MaskedSuffix) }

Before(a, b) == a[1] < b[1] \/ (a[1] = b[1] /\ a[2] < b[2])

FirstQualifying == CHOOSE a \in Qualifying : \A b \in Qualifying : a = b \/ Before(a, b)

\* C3 as stated: a profile answered 200 with an empty email and a timeline in
\* which no commit author email qualifies resolve to "Not available"; a masked
\* no-reply address is never the result.
C3_Original ==
    Resolved =>
        /\ (Profile.status = StatusOK /\ ~Truthy(Profile.email) /\ Qualifying = {})
              => email = NotAvailable
        /\ ~EndsWith(email, MaskedSuffix)

\* C9: a profile answered 200 with a non-empty email is the result, and the
\* timeline is never requested.
C9_ProfileEmailWins ==
    (Profile.status = StatusOK /\ Profile.email # None /\ Profile.email # "") =>
        /\ ~TimelineAsked
        /\ pc # "events_get"
        /\ Resolved => email = Profile.email

C9_Witness ==
    /\ Resolved
    /\ Profile.status = StatusOK /\ Profile.events_status = StatusOK
    /\ email = "u@corp.com"
    /\ Qualifying # {}
    /\ Len(reqs) = 1

\* C10: with an empty profile email and the timeline answered 200, the result is
\* the author email of the first qualifying commit, push events taken in
\* timeline order and commits in listed order; events of other types and what
\* comes after that commit do not count.
C10_FirstQualifyingCommit ==
    (/\ Resolved
     /\ Profile.status = StatusOK /\ ~Truthy(Profile.email)
     /\ Profile.events_status = StatusOK
     /\ Qualifying # {}) =>
        email = Profile.events[FirstQualifying[1]].commits[FirstQualifying[2]].email

C10_Witness ==
    /\ Resolved
    /\ Profile.status = StatusOK /\ ~Truthy(Profile.email)
    /\ Profile.events_status = StatusOK
    /\ Len(Profile.events) = 2
    /\ Profile.events[1].type = "WatchEvent"
    /\ Cardinality(Qualifying) = 1 /\ FirstQualifying = <<2, 2>>
    /\ EndsWith(Profile.events[2].commits[1].email, MaskedSuffix)
    /\ email = "c2@x.org"

----------------------------------------------------------------------------
\* C11: a non-200 answer to the profile request gives "Not available" with no
\* timeline request; a non-200 answer to the timeline request, after a profile
\* with an empty email, gives "Not available" too; neither raises.
C11_LookupFailureIsNotAvailable ==
    /\ (Len(resps) >= 1 /\ resps[1].status # StatusOK) =>
          /\ Resolved /\ email = NotAvailable
          /\ Len(reqs) = 1 /\ ~TimelineAsked
    /\ (Len(resps) = 2 /\ resps[2].status # StatusOK) =>
          /\ Profile.email \in {None, ""}
          /\ Resolved /\ email = NotAvailable

C11_Witness ==
    /\ Resolved
    /\ Len(resps) = 2 /\ resps[1].status = StatusOK /\ resps[2].status # StatusOK
    /\ reqs[2].ep = "events"
    /\ Qualifying # {}
    /\ email = NotAvailable

----------------------------------------------------------------------------

\* Properties of get_permission_level, over SpecPerm (one row a run)

FlagOrder == <<"admin", "maintain", "push", "triage", "pull">>

LevelOrder == <<"Admin", "Maintain", "Write", "Triage", "Read">>

\* The positions in FlagOrder of the flags that are present and true
TrueFlags(p) == {i \in 1..Len(FlagOrder) : FlagOrder[i] \in DOMAIN p /\ p[FlagOrder[i]]}

\* C8: the level is that of the first true flag in the order admin, maintain,
\* push, triage, pull, whatever else is set, and Unknown when no flag is true.
C8_FirstTrueFlagWins ==
    pc = "collab_loop" =>
        LET p == collaborators[1].permissions
            T == TrueFlags(p)
        IN  rows[2][5] = IF T = {} THEN "Unknown"
                         ELSE LevelOrder[CHOOSE i \in T : \A j \in T : i <= j]

C8_Witness ==
    /\ pc = "collab_loop"
    /\ TrueFlags(collaborators[1].permissions) = {3, 5}
    /\ DOMAIN collaborators[1].permissions = Flags
    /\ rows[2][5] = "Write"

----------------------------------------------------------------------------
\* Properties of the whole report run, over Spec

\* A request is about to be issued, and it is not the first
NextRequestDue == pc \in RequestPcs /\ reqs # <<>>

\* The last response was a non-empty page of a listing, answered 200
LastWasListingPage ==
    /\ reqs[Len(reqs)].ep \in {"repos", "collaborators"}
    /\ resps[Len(resps)].status = StatusOK
    /\ resps[Len(resps)].n > 0

\* C4 as stated: after any response reporting fewer than 10 remaining, the next
\* request is preceded by the 60-unit cooldown; after one reporting 10 or more,
\* no cooldown comes before the next request.
C4_Original ==
    NextRequestDue =>
        /\ (lastHdr.has /\ lastHdr.val < LowWaterMark) => slept = Cooldown
        /\ (lastHdr.has /\ lastHdr.val >= LowWaterMark) => slept = 0

\* C4 amended: the next request is preceded by the 60-unit cooldown exactly when
\* the last response was a non-empty page of a repository or collaborator
\* listing, answered 200, reporting fewer than 10 remaining; after every other
\* response no cooldown comes before the next request.
C4_CooldownOnlyAfterListingPage ==
    NextRequestDue =>
        slept = IF LastWasListingPage /\ lastHdr.has /\ lastHdr.val < LowWaterMark
                THEN Cooldown ELSE 0

C4_Witness ==
    /\ NextRequestDue
    /\ pc = "collabs_get"
    /\ slept = Cooldown
    /\ lastHdr.has /\ lastHdr.val < LowWaterMark
    /\ \E i \in 1..Len(reqs) - 1 : reqs[i].ep = "profile"

\* The rows written for one repository, in the order written
RowsOf(o, r) == SelectSeq(rows, LAMBDA x : x[1] = o /\ x[2] = r)

\* What get_user_email returns for a login from the server's data
LookupOf(login) ==
    LET u == srv.users[login]
    IN  IF u.status # StatusOK THEN NotAvailable
        ELSE IF u.email # None /\ u.email # "" THEN u.email
        ELSE AfterEvents(u.events_status, u.events, u.email)

\* The rows of one repository when its listings succeed
FullRowsOf(o, r) ==
    LET cs == srv.collabs[<<o, r>>]
    IN  [k \in 1..Len(cs) |->
            <<o, r, cs[k].login, LookupOf(cs[k].login), get_permission_level(cs[k].permissions)>>]

Failed(o, r) == [org |-> o, repo |-> r] \in failedUnits

\* C6: a non-200 answer in one listing touches that listing's unit only: at the
\* end of the run every organization whose repository listing did not fail has,
\* for each of its repositories whose collaborator listing did not fail, exactly
\* the rows of a run without failures.
C6_FailureStaysInItsUnit ==
    pc = "done" =>
        \A i \in 1..Len(org_names) :
            LET o == org_names[i] IN
            (o \in DOMAIN srv.repos /\ ~Failed(o, "")) =>
                \A j \in 1..Len(srv.repos[o]) :
                    LET r == srv.repos[o][j].name IN
                    ~Failed(o, r) => RowsOf(o, r) = FullRowsOf(o, r)

C6_Witness ==
    /\ pc = "done"
    /\ org_names = <<"A", "B", "C">>
    /\ failedUnits = {[org |-> "B", repo |-> ""], [org |-> "A", repo |-> "a2"]}
    /\ Len(RowsOf("A", "a1")) = 2
    /\ Len(RowsOf("C", "c1")) = 1
    /\ Len(rows) = 4

\* The listing calls of the run in call order, as the nesting prescribes them
\* from what the repository listings returned
RepoListings == SelectSeq(listed, LAMBDA e : e.repo = "")

CollabListings == SelectSeq(listed, LAMBDA e : e.repo # "")

RECURSIVE NestedCalls(_)
NestedCalls(k) ==
    IF k = 0 THEN <<>>
    ELSE NestedCalls(k - 1)
         \o [j \in 1..Len(RepoListings[k].items) |->
                <<RepoListings[k].org, RepoListings[k].items[j].name>>]

\* Organization, repository and user name of one row per returned collaborator
RECURSIVE NestedRows(_)
NestedRows(k) ==
    IF k = 0 THEN <<>>
    ELSE NestedRows(k - 1)
         \o [c \in 1..Len(CollabListings[k].items) |->
                <<CollabListings[k].org, CollabListings[k].repo, CollabListings[k].items[c].login>>]

\* C7: a run that ends without a transport failure has written the header once,
\* first, and then one row per collaborator entry returned, organizations in
\* the order resolved, repositories and collaborators in the order their
\* listings returned them, none dropped and none merged.
C7_RowsFollowNesting ==
    pc = "done" =>
        /\ Len(RepoListings) = Len(org_names)
        /\ \A k \in 1..Len(org_names) : RepoListings[k].org = org_names[k]
        /\ [k \in 1..Len(CollabListings) |-> <<CollabListings[k].org, CollabListings[k].repo>>]
              = NestedCalls(Len(RepoListings))
        /\ rows[1] = Header
        /\ [k \in 1..Len(rows) - 1 |-> <<rows[k + 1][1], rows[k + 1][2], rows[k + 1][3]>>]
              = NestedRows(Len(CollabListings))

C7_Witness ==
    /\ pc = "done"
    /\ failures = 0
    /\ org_names = <<"C", "A">>
    /\ Len(rows) = 5
    /\ rows[2][3] = "u5" /\ rows[3][3] = "u1" /\ rows[4][3] = "u2" /\ rows[5][3] = "u1"

----------------------------------------------------------------------------
\* A request was issued and never answered: it failed in transport
Unanswered == Len(reqs) > Len(resps)

\* C13: a transport failure on any request ends the run there: the failing step
\* writes no row and prints nothing, and no step follows it, so no request is
\* issued, no row is written and the success message is not printed afterwards;
\* the header and the rows written before stay as they were.
C13_TransportFailureEndsRun ==
    [][ /\ ~Unanswered
        /\ Unanswered' => /\ pc' = "crashed"
                          /\ Len(reqs') = Len(reqs) + 1
                          /\ rows' = rows
                          /\ ~printed' ]_vars

C13_Witness ==
    /\ Unanswered
    /\ pc = "crashed"
    /\ reqs[Len(reqs)].ep = "events"
    /\ Len(rows) = 3 /\ rows[1] = Header
    /\ ~printed

----------------------------------------------------------------------------

\* The lookups begun so far: one profile request each
ProfileRequests == Cardinality({i \in 1..Len(reqs) : reqs[i].ep = "profile"})

\* A lookup is under way or its result is waiting to be written
InLookup ==
    \/ pc \in {"events_get", "write_row"}
    \/ pc = "crashed" /\ reqs[Len(reqs)].ep \in {"profile", "events"}

\* C14: rows are streamed: the header is in the file before the first request,
\* and whenever the run is outside a lookup (so at every profile request of a
\* next collaborator and every listing request) each collaborator looked up so
\* far has its row in the file; inside a lookup exactly one row is outstanding.
C14_RowsAreStreamed ==
    /\ reqs # <<>> => (Len(rows) >= 1 /\ rows[1] = Header)
    /\ pc \in RequestPcs => (Len(rows) >= 1 /\ rows[1] = Header)
    /\ pc # "start" =>
          ProfileRequests - (Len(rows) - 1) = IF InLookup THEN 1 ELSE 0

C14_Witness ==
    /\ pc = "repos_get"
    /\ oi = 2
    /\ Len(rows) = 4
    /\ ProfileRequests = 3

----------------------------------------------------------------------------

\* The requests to the organization-membership endpoint so far
OrgsRequests == SelectSeq(reqs, LAMBDA r : r.ep = "orgs")

\* The organizations whose repository listing has returned, in call order
ProcessedOrgs == [i \in 1..Len(RepoListings) |-> RepoListings[i].org]

\* The logins the membership endpoint holds, in the order it returns them
Logins == [i \in 1..Len(srv.orgs) |-> srv.orgs[i].login]

\* What has been processed is the start of names, and all of it at the end
ProcessesInOrder(names) ==
    /\ Len(ProcessedOrgs) <= Len(names)
    /\ ProcessedOrgs = SubSeq(names, 1, Len(ProcessedOrgs))
    /\ pc = "done" => ProcessedOrgs = names

\* C16: given a non-empty organization list, generate_report never asks the
\* membership endpoint and processes exactly the given names in the given
\* order; given none, it asks the membership endpoint exactly once, unpaged, as
\* its first request, and on 200 processes every returned login in returned
\* order, while on a non-200 it has zero organizations, issues no further
\* request, and ends with a header-only report and the success message.
C16_OrganizationsGivenOrDiscovered ==
    /\ given # <<>> =>
          /\ OrgsRequests = <<>>
          /\ org_names = given
          /\ ProcessesInOrder(given)
    /\ given = <<>> =>
          /\ Len(OrgsRequests) = IF pc \in {"start", "orgs_get"} THEN 0 ELSE 1
          /\ reqs # <<>> => (reqs[1] = OrgsReq /\ reqs[1].page = 0 /\ reqs[1].per_page = 0)
          /\ (resps # <<>> /\ resps[1].status = StatusOK) =>
                (org_names = Logins /\ ProcessesInOrder(Logins))
          /\ (resps # <<>> /\ resps[1].status # StatusOK) =>
                /\ org_names = <<>>
                /\ Len(reqs) = 1
                /\ pc \in {"org_loop", "done"}
                /\ rows = <<Header>>
                /\ pc = "done" => printed

C16_Witness ==
    /\ given = <<>>
    /\ resps # <<>> /\ resps[1].status # StatusOK
    /\ pc = "done" /\ printed /\ rows = <<Header>>

Levels == {"Admin", "Maintain", "Write", "Triage", "Read", "Unknown"}

\* The level the capability flags stand for: that of the first true flag
LevelOfFlags(p) ==
    IF TrueFlags(p) = {} THEN "Unknown"
    ELSE LevelOrder[CHOOSE i \in TrueFlags(p) : \A j \in TrueFlags(p) : i <= j]

\* The capability flags of every returned collaborator, in the order returned
RECURSIVE NestedFlags(_)
NestedFlags(k) ==
    IF k = 0 THEN <<>>
    ELSE NestedFlags(k - 1)
         \o [c \in 1..Len(CollabListings[k].items) |-> CollabListings[k].items[c].permissions]

\* The data rows written so far: the rows after the header
DataRows == 2..Len(rows)

\* C17: at every moment of a report run each data row written so far has five
\* fields, none of them absent or empty; its permission is one of the six
\* levels and is the level its collaborator's capability flags stand for; its
\* email is a non-empty address or "Not available".
C17_RowsAreComplete ==
    /\ Len(rows) - 1 <= Len(NestedFlags(Len(CollabListings)))
    /\ \A k \in DataRows :
          /\ Len(rows[k]) = 5
          /\ \A f \in 1..5 : rows[k][f] \notin {None, ""}
          /\ rows[k][5] \in Levels
          /\ rows[k][5] = LevelOfFlags(NestedFlags(Len(CollabListings))[k - 1])
          /\ rows[k][4] = NotAvailable \/ Len(rows[k][4]) > 0

C17_Witness ==
    /\ \E k \in DataRows :
          rows[k][3] = "u5" /\ rows[k][4] = NotAvailable /\ rows[k][5] = "Unknown"
    /\ \E k \in DataRows : IsMasked(rows[k][4]) /\ rows[k][5] = "Triage"

\* Properties of the report run when every request is answered, over SpecAnswered

\* C12: a run in which no request fails in transport ends, and ends with the
\* success message printed, however many listings and lookups were answered
\* with a non-200 status, a run in which all of them were included.
C12_RunEndsWithSuccess == <>(pc = "done" /\ printed)

C12_Witness ==
    /\ pc = "done" /\ printed
    /\ org_names = <<"A", "B", "C">>
    /\ Len(reqs) = 3
    /\ \A i \in 1..Len(resps) : resps[i].status # StatusOK
    /\ rows = <<Header>>

====
